---- MODULE Spec2Model ----
(***************************************************************************)
(* Model of the simple-interpreter front end: the lexer (lexer/lexer.go),  *)
(* the parser (parser/parser.go) and the rendering of the syntax tree      *)
(* (ast/ast.go).  Source text is a sequence of one-character strings; a    *)
(* token is a record [Type, Literal] whose Literal is a slice of the       *)
(* input.  A Go run-time panic (slice bounds out of range) is the flag     *)
(* `panic`.                                                                *)
(***************************************************************************)
EXTENDS Integers, Sequences, FiniteSets, TLC

VARIABLES
    l,          \* the Lexer: [input, position, readPosition, ch]
    toks,       \* the tokens Lexer.NextToken has returned so far, in order
    curToken,   \* Parser.curToken
    peekToken,  \* Parser.peekToken
    errors,     \* Parser.errors
    program,    \* Program.Statements of the program being built
    stmt,       \* the statement a statement parser is building (its local)
    pc,         \* position of the running call
    firstPass   \* once a rendering is parsed again: the source and the
                \* rendering of the first parse; Nil (<<>>) before

vars == <<l, toks, curToken, peekToken, errors, program, stmt, pc, firstPass>>

-----------------------------------------------------------------------------
(* Bounds *)

\* longest input of the lexer specification, in bytes
MaxLen == 3
\* most lexemes joined into one input of the parser specification
MaxPieces == 4
\* how many lexer calls past the end of the token stream a run is followed
MaxOverrun == 2

-----------------------------------------------------------------------------
(* Bytes *)

\* the byte 0: what readChar and peekChar yield at the end of the input
NUL == "NUL"

QUOTE == "\""

Lower == {"a","b","c","d","e","f","g","h","i","j","k","l","m",
          "n","o","p","q","r","s","t","u","v","w","x","y","z"}

Upper == {"A","B","C","D","E","F","G","H","I","J","K","L","M",
          "N","O","P","Q","R","S","T","U","V","W","X","Y","Z"}

isNum(ch) == ch \in {"0","1","2","3","4","5","6","7","8","9"}

isChar(ch) == ch \in Lower \/ ch \in Upper \/ ch = "_"

isSpace(ch) == ch \in {" ", "\t", "\n", "\r"}

\* Go's s[lo:hi]
Slice(s, lo, hi) == SubSeq(s, lo + 1, hi)

\* s[lo:hi] panics unless 0 <= lo <= hi <= len(s)
SliceOK(s, lo, hi) == 0 <= lo /\ lo <= hi /\ hi <= Len(s)

-----------------------------------------------------------------------------
(* Tokens *)

Token(type, literal) == [Type |-> type, Literal |-> literal]

\* the zero value of token.Token
ZeroToken == Token("", <<>>)

newToken(tokenType, ch) == Token(tokenType, <<ch>>)

\* the keyword table
LookupIdent(ident) ==
    CASE ident = <<"f","n">>                 -> "FUNCTION"
      [] ident = <<"l","e","t">>             -> "LET"
      [] ident = <<"t","r","u","e">>         -> "TRUE"
      [] ident = <<"f","a","l","s","e">>     -> "FALSE"
      [] ident = <<"i","f">>                 -> "IF"
      [] ident = <<"e","l","s","e">>         -> "ELSE"
      [] ident = <<"r","e","t","u","r","n">> -> "RETURN"
      [] OTHER                               -> "IDENT"

\* the category of a one-byte operator or delimiter
SingleType(ch) ==
    CASE ch = "+" -> "PLUS"
      [] ch = "-" -> "MINUS"
      [] ch = "*" -> "ASTERISK"
      [] ch = "/" -> "SLASH"
      [] ch = ">" -> "GT"
      [] ch = "<" -> "LT"
      [] ch = "(" -> "LPAREN"
      [] ch = ")" -> "RPAREN"
      [] ch = "{" -> "LBRACE"
      [] ch = "}" -> "RBRACE"
      [] ch = "[" -> "LBRACKET"
      [] ch = "]" -> "RBRACKET"
      [] ch = "," -> "COMMA"
      [] ch = ";" -> "SEMICOLON"
      [] OTHER    -> "ILLEGAL"

-----------------------------------------------------------------------------
(* Lexer *)

readChar(lx) ==
    [lx EXCEPT !.ch = IF lx.readPosition >= Len(lx.input)
                      THEN NUL
                      ELSE lx.input[lx.readPosition + 1],
               !.position = lx.readPosition,
               !.readPosition = lx.readPosition + 1]

\* peekChar gone wrong: the byte under the cursor instead of the one after it
peekCharCurrent(lx) ==
    IF lx.readPosition >= Len(lx.input)
    THEN NUL
    ELSE lx.input[lx.readPosition]

peekChar(lx) ==
    IF lx.readPosition >= Len(lx.input)
    THEN NUL
    ELSE lx.input[lx.readPosition + 1]

\* lexer.New
NewLexer(input) ==
    readChar([input |-> input, position |-> 0, readPosition |-> 0, ch |-> NUL])

RECURSIVE skipSpaces(_)
skipSpaces(lx) == IF isSpace(lx.ch) THEN skipSpaces(readChar(lx)) ELSE lx

\* readIdentifier's loop gone wrong: its body never runs
IdentifierLoopNever(lx) == lx

RECURSIVE IdentifierLoop(_)
IdentifierLoop(lx) == IF isChar(lx.ch) THEN IdentifierLoop(readChar(lx)) ELSE lx

\* readIdentifier gone wrong: it also consumes the byte that ends the run
readIdentifierEatsNext(lx) ==
    LET start == lx.position
        after == IdentifierLoop(lx)
    IN  [l |-> readChar(after), lit |-> Slice(lx.input, start, after.position),
         panic |-> FALSE]

\* the lexer after the run, the literal read, and whether the slice panicked
readIdentifier(lx) ==
    LET start == lx.position
        after == IdentifierLoop(lx)
    IN  [l |-> after, lit |-> Slice(lx.input, start, after.position), panic |-> FALSE]

RECURSIVE IntLoop(_)
IntLoop(lx) == IF isNum(lx.ch) THEN IntLoop(readChar(lx)) ELSE lx

readInt(lx) ==
    LET start == lx.position
        after == IntLoop(lx)
    IN  [l |-> after, lit |-> Slice(lx.input, start, after.position), panic |-> FALSE]

\* the body of readString's for loop: read, then test
RECURSIVE StringLoop(_)
StringLoop(lx) ==
    LET n == readChar(lx)
    IN  IF n.ch = QUOTE \/ n.ch = NUL THEN n ELSE StringLoop(n)

readString(lx) ==
    LET first == readChar(lx)
        start == first.position
        after == StringLoop(first)
    IN  IF SliceOK(lx.input, start, after.position)
        THEN [l |-> after, lit |-> Slice(lx.input, start, after.position),
              panic |-> FALSE]
        ELSE [l |-> after, lit |-> <<>>, panic |-> TRUE]

\* Lexer.NextToken: the lexer after the call, the token returned, and whether
\* the call panicked instead of returning
NextToken(lx) ==
    LET s == skipSpaces(lx)
        ch == s.ch
    IN  CASE ch = "=" ->
               IF peekChar(s) = "="
               THEN [l |-> readChar(readChar(s)),
                     tok |-> Token("EQ", Slice(s.input, s.position, s.readPosition + 1)),
                     panic |-> FALSE]
               ELSE [l |-> readChar(s), tok |-> newToken("ASSIGN", ch), panic |-> FALSE]
          [] ch = "!" ->
               IF peekChar(s) = "="
               THEN [l |-> readChar(readChar(s)),
                     tok |-> Token("NOT_EQ", Slice(s.input, s.position, s.readPosition + 1)),
                     panic |-> FALSE]
               ELSE [l |-> readChar(s), tok |-> newToken("BANG", ch), panic |-> FALSE]
          [] ch = QUOTE ->
               LET r == readString(s)
               IN  IF r.panic
                   THEN [l |-> r.l, tok |-> ZeroToken, panic |-> TRUE]
                   ELSE [l |-> readChar(r.l), tok |-> Token("STRING", r.lit),
                         panic |-> FALSE]
          [] ch = NUL ->
               [l |-> readChar(s), tok |-> Token("EOF", <<>>), panic |-> FALSE]
          [] isChar(ch) ->
               LET r == readIdentifier(s)
               IN  [l |-> r.l, tok |-> Token(LookupIdent(r.lit), r.lit), panic |-> FALSE]
          [] isNum(ch) ->
               LET r == readInt(s)
               IN  [l |-> r.l, tok |-> Token("INT", r.lit), panic |-> FALSE]
          [] OTHER ->
               [l |-> readChar(s), tok |-> newToken(SingleType(ch), ch), panic |-> FALSE]

-----------------------------------------------------------------------------
(* The lexer on its own: NextToken called again and again on one input *)

LexAlphabet == {"a", "1", " ", "\n", "=", "!", ";", QUOTE, NUL}

RECURSIVE SeqsUpTo(_, _)
SeqsUpTo(S, n) ==
    IF n = 0 THEN {<<>>}
    ELSE LET shorter == SeqsUpTo(S, n - 1)
         IN  shorter \cup {Append(s, c) : s \in shorter, c \in S}

LexInputs == SeqsUpTo(LexAlphabet, MaxLen)

\* calls made on an input: two more than its length
MaxCalls == MaxLen + 2

LexInit ==
    /\ \E input \in LexInputs : l = NewLexer(input)
    /\ toks = <<>>
    /\ curToken = ZeroToken
    /\ peekToken = ZeroToken
    /\ errors = <<>>
    /\ program = <<>>
    /\ stmt = <<>>
    /\ pc = "lex"
    /\ firstPass = <<>>

LexNextToken ==
    /\ pc = "lex"
    /\ Len(toks) < MaxCalls
    /\ LET r == NextToken(l)
       IN  /\ l' = r.l
           /\ IF r.panic
              THEN pc' = "panic" /\ toks' = toks
              ELSE pc' = pc /\ toks' = Append(toks, r.tok)
    /\ UNCHANGED <<curToken, peekToken, errors, program, stmt, firstPass>>

LexNext == LexNextToken

LexSpec == LexInit /\ [][LexNext]_vars

-----------------------------------------------------------------------------
(* Syntax tree *)

\* a nil pointer or a nil interface
Nil == <<>>

\* a statement in Program.Statements is an interface value: the dynamic type
\* and the pointer, which is Nil or <<node>>
Iface(type, ptr) == [type |-> type, ptr |-> ptr]

Identifier(tok) == [Token |-> tok, Value |-> tok.Literal]

LetStatement(tok, name, value) == [Token |-> tok, Name |-> name, Value |-> value]

ReturnStatement(tok, value) == [Token |-> tok, ReturnValue |-> value]

ExpressionStatement(tok, exp) == [Token |-> tok, Expression |-> exp]

-----------------------------------------------------------------------------
(* Parser *)

LOWEST == 1

\* the categories New registers a prefix handler for
prefixParseFns == {"IDENT"}

\* the parser's fields as one value, so that calls compose
PS == [l |-> l, toks |-> toks, curToken |-> curToken, peekToken |-> peekToken,
       errors |-> errors, panic |-> FALSE]

\* Parser.NextToken
ParserNextToken(ps) ==
    IF ps.panic THEN ps
    ELSE LET r == NextToken(ps.l)
         IN  IF r.panic
             THEN [ps EXCEPT !.curToken = ps.peekToken, !.l = r.l, !.panic = TRUE]
             ELSE [ps EXCEPT !.curToken = ps.peekToken, !.peekToken = r.tok,
                             !.l = r.l, !.toks = Append(ps.toks, r.tok)]

curTokenIs(ps, t) == ps.curToken.Type = t

peekTokenIs(ps, t) == ps.peekToken.Type = t

\* peekError gone wrong: it names the current token's category
peekErrorNamesCurrent(ps, t) ==
    [ps EXCEPT !.errors = Append(ps.errors,
        [msg |-> "expected next token", expected |-> t, got |-> ps.curToken.Type])]

\* the message "expected next token to be <t>, got <peek category> instead"
peekError(ps, t) ==
    [ps EXCEPT !.errors = Append(ps.errors,
        [msg |-> "expected next token", expected |-> t, got |-> ps.peekToken.Type])]

expectPeek(ps, t) ==
    IF peekTokenIs(ps, t)
    THEN [p |-> ParserNextToken(ps), ok |-> TRUE]
    ELSE [p |-> peekError(ps, t), ok |-> FALSE]

parseIdentifier(ps) == <<Identifier(ps.curToken)>>

\* the expression returned (Nil for none); the parser is left as it was
parseExpression(ps, precedence) ==
    IF ps.curToken.Type \notin prefixParseFns THEN Nil ELSE parseIdentifier(ps)

Commit(ps) ==
    /\ l' = ps.l
    /\ toks' = ps.toks
    /\ curToken' = ps.curToken
    /\ peekToken' = ps.peekToken
    /\ errors' = ps.errors

\* the rest of ParseProgram's loop body once ParseStatement has returned
\* `result`: append it unless it is the nil interface, then NextToken
AppendAndAdvance(ps, result) ==
    LET n == ParserNextToken(ps)
    IN  /\ program' = IF ps.panic \/ result = Nil THEN program
                      ELSE Append(program, result[1])
        /\ Commit(n)
        /\ stmt' = Nil
        /\ pc' = IF n.panic THEN "panic" ELSE "ParseProgram"

\* parser.New on a fresh lexer
New ==
    /\ pc = "New"
    /\ LET ps == ParserNextToken(ParserNextToken(PS))
       IN  /\ Commit(ps)
           /\ pc' = IF ps.panic THEN "panic" ELSE "ParseProgram"
    /\ UNCHANGED <<program, stmt, firstPass>>

\* ParseProgram leaves its loop and returns the program
ParseProgramReturn ==
    /\ pc = "ParseProgram"
    /\ curTokenIs(PS, "EOF")
    /\ pc' = "done"
    /\ UNCHANGED <<l, toks, curToken, peekToken, errors, program, stmt, firstPass>>

\* ParseLetStatment up to its loop.  A nil *LetStatement returned through
\* ParseStatement is a Statement with a dynamic type, so not the nil interface.
ParseLetStatment ==
    /\ pc = "ParseProgram"
    /\ curTokenIs(PS, "LET")
    /\ UNCHANGED firstPass
    /\ LET e1 == expectPeek(PS, "IDENT")
           s1 == LetStatement(curToken, <<Identifier(e1.p.curToken)>>, Nil)
           e2 == expectPeek(e1.p, "ASSIGN")
       IN  IF ~e1.ok
           THEN AppendAndAdvance(e1.p, <<Iface("*ast.LetStatement", Nil)>>)
           ELSE IF ~e2.ok
           THEN AppendAndAdvance(e2.p, <<Iface("*ast.LetStatement", Nil)>>)
           ELSE /\ Commit(e2.p)
                /\ stmt' = <<s1>>
                /\ pc' = IF e2.p.panic THEN "panic" ELSE "LetLoop"
                /\ program' = program

\* one test of `for !p.expectPeek(token.SEMICOLON)` in ParseLetStatment, with
\* the loop body or the return that follows it
LetLoop ==
    /\ pc = "LetLoop"
    /\ UNCHANGED firstPass
    /\ LET e == expectPeek(PS, "SEMICOLON")
       IN  IF e.ok
           THEN AppendAndAdvance(e.p, <<Iface("*ast.LetStatement", stmt)>>)
           ELSE /\ Len(toks) < Len(l.input) + 2 + MaxOverrun
                /\ LET n == ParserNextToken(e.p)
                   IN  /\ Commit(n)
                       /\ pc' = IF n.panic THEN "panic" ELSE pc
                /\ UNCHANGED <<program, stmt>>

\* ParseReturnStatement up to its loop
ParseReturnStatement ==
    /\ pc = "ParseProgram"
    /\ curTokenIs(PS, "RETURN")
    /\ UNCHANGED firstPass
    /\ LET n == ParserNextToken(PS)
       IN  /\ Commit(n)
           /\ pc' = IF n.panic THEN "panic" ELSE "ReturnLoop"
    /\ stmt' = <<ReturnStatement(curToken, Nil)>>
    /\ program' = program

\* one test of `for !p.expectPeek(token.SEMICOLON)` in ParseReturnStatement
ReturnLoop ==
    /\ pc = "ReturnLoop"
    /\ UNCHANGED firstPass
    /\ LET e == expectPeek(PS, "SEMICOLON")
       IN  IF e.ok
           THEN AppendAndAdvance(e.p, <<Iface("*ast.ReturnStatement", stmt)>>)
           ELSE /\ Len(toks) < Len(l.input) + 2 + MaxOverrun
                /\ LET n == ParserNextToken(e.p)
                   IN  /\ Commit(n)
                       /\ pc' = IF n.panic THEN "panic" ELSE pc
                /\ UNCHANGED <<program, stmt>>

\* ParseExpressionStatement gone wrong: the trailing `;` is left in place
ParseExpressionStatementKeepsSemicolon ==
    /\ pc = "ParseProgram"
    /\ ~curTokenIs(PS, "EOF") /\ ~curTokenIs(PS, "LET") /\ ~curTokenIs(PS, "RETURN")
    /\ UNCHANGED firstPass
    /\ LET s == ExpressionStatement(curToken, parseExpression(PS, LOWEST))
       IN  AppendAndAdvance(PS, <<Iface("*ast.ExpressionStatement", <<s>>)>>)

ParseExpressionStatement ==
    /\ pc = "ParseProgram"
    /\ ~curTokenIs(PS, "EOF") /\ ~curTokenIs(PS, "LET") /\ ~curTokenIs(PS, "RETURN")
    /\ UNCHANGED firstPass
    /\ LET s == ExpressionStatement(curToken, parseExpression(PS, LOWEST))
           after == IF peekTokenIs(PS, "SEMICOLON") THEN ParserNextToken(PS) ELSE PS
       IN  AppendAndAdvance(after, <<Iface("*ast.ExpressionStatement", <<s>>)>>)

-----------------------------------------------------------------------------
(* The parser on one input: lexer.New, parser.New, ParseProgram *)

Pieces == { <<"l","e","t"," ">>, <<"r","e","t","u","r","n"," ">>,
            <<"x">>, <<"5">>, <<"=">>, <<";">>, <<"+">> }

RECURSIVE Concat(_)
Concat(ss) == IF ss = <<>> THEN <<>> ELSE Head(ss) \o Concat(Tail(ss))

\* the inputs the specification names
Examples ==
    { <<"l","e","t"," ","x"," ","="," ","5",";">>,
      <<"l","e","t"," ","x"," ","5",";">>,
      <<"l","e","t"," ","x"," ","5",";"," ","y",";">>,
      <<"a"," ","+"," ","b"," ","+"," ","c">>,
      <<"a"," ","+"," ","b"," ","*"," ","c">>,
      <<"-","a"," ","*"," ","b">>,
      <<"r","e","t","u","r","n",";"," ","f","o","o",";">>,
      <<"x"," ",QUOTE>>,
      <<"l","e","t"," ","x"," ",QUOTE>>,
      <<NUL,"a">> }

Inputs == {Concat(ss) : ss \in SeqsUpTo(Pieces, MaxPieces)} \cup Examples

Init ==
    /\ \E input \in Inputs : l = NewLexer(input)
    /\ toks = <<>>
    /\ curToken = ZeroToken
    /\ peekToken = ZeroToken
    /\ errors = <<>>
    /\ program = <<>>
    /\ stmt = Nil
    /\ pc = "New"
    /\ firstPass = Nil

Next ==
    \/ New
    \/ ParseProgramReturn
    \/ ParseLetStatment
    \/ LetLoop
    \/ ParseReturnStatement
    \/ ReturnLoop
    \/ ParseExpressionStatement

Spec == Init /\ [][Next]_vars

-----------------------------------------------------------------------------
(* Rendering: the String methods.  A method called through a nil pointer    *)
(* dereferences it and panics.                                              *)

IdentifierString(i) == i.Value

\* the String of an expression the parser can build
ExpressionString(e) == IdentifierString(e)

LetStatementString(ls) ==
    ls.Token.Literal \o <<" ">> \o IdentifierString(ls.Name[1]) \o <<" ", "=", " ">>
        \o (IF ls.Value # Nil THEN ExpressionString(ls.Value[1]) ELSE <<>>) \o <<";">>

ReturnStatementString(rs) ==
    rs.Token.Literal \o <<" ">>
        \o (IF rs.ReturnValue # Nil THEN ExpressionString(rs.ReturnValue[1]) ELSE <<>>)
        \o <<";">>

ExpressionStatementString(es) ==
    IF es.Expression # Nil THEN ExpressionString(es.Expression[1]) ELSE <<>>

\* s.String() on an entry of Program.Statements: the text, or a panic
StatementString(s) ==
    IF s.ptr = Nil THEN [str |-> <<>>, panic |-> TRUE]
    ELSE [str |-> CASE s.type = "*ast.LetStatement" -> LetStatementString(s.ptr[1])
                    [] s.type = "*ast.ReturnStatement" -> ReturnStatementString(s.ptr[1])
                    [] OTHER -> ExpressionStatementString(s.ptr[1]),
          panic |-> FALSE]

RECURSIVE ProgramString(_)
ProgramString(statements) ==
    IF statements = <<>> THEN [str |-> <<>>, panic |-> FALSE]
    ELSE LET first == StatementString(Head(statements))
             rest == ProgramString(Tail(statements))
         IN  IF first.panic THEN first
             ELSE [str |-> first.str \o rest.str, panic |-> rest.panic]

-----------------------------------------------------------------------------
(* Round trip: the program returned is rendered and the rendering parsed    *)
(* again, by a fresh lexer and a fresh parser                               *)

Reparse ==
    /\ pc = "done"
    /\ firstPass = Nil
    /\ LET r == ProgramString(program)
       IN  /\ ~r.panic
           /\ firstPass' = <<[src |-> l.input, str |-> r.str]>>
           /\ l' = NewLexer(r.str)
    /\ toks' = <<>>
    /\ curToken' = ZeroToken
    /\ peekToken' = ZeroToken
    /\ errors' = <<>>
    /\ program' = <<>>
    /\ stmt' = Nil
    /\ pc' = "New"

RoundTripNext == Next \/ Reparse

RoundTripSpec == Init /\ [][RoundTripNext]_vars

-----------------------------------------------------------------------------
(* Claims about the lexer, checked under LexSpec *)

\* C3: for any input, NextToken returns EOF on some call numbered at most
\* len(input)+1 (so no call fails before that), and every call after the
\* first EOF returns EOF as well.
C3_EofWithinBoundAndForever ==
    /\ pc # "panic"
    /\ Len(toks) >= Len(l.input) + 1
          => \E k \in 1..(Len(l.input) + 1) : toks[k].Type = "EOF"
    /\ \A j, k \in 1..Len(toks) :
          (j < k /\ toks[j].Type = "EOF") => toks[k].Type = "EOF"

\* the offset of the first `"` at or after offset j, or len(input) if none
RECURSIVE NextQuote(_, _)
NextQuote(input, j) ==
    IF j >= Len(input) \/ input[j + 1] = QUOTE THEN j ELSE NextQuote(input, j + 1)

\* C5: a NextToken call that meets a `"` at offset i returns, without
\* failing, a STRING token whose literal is the bytes strictly between i and
\* the next `"` after i (or the end of the input when there is none).
C5_StringLiteralBetweenQuotes ==
    [][ LET s == skipSpaces(l)
            i == s.position
        IN  (pc = "lex" /\ s.ch = QUOTE)
              => /\ pc' = "lex"
                 /\ toks' = Append(toks,
                        Token("STRING",
                              Slice(l.input, i + 1, NextQuote(l.input, i + 1))))
      ]_vars

\* C12: on `=` NextToken returns EQ `==` when the next byte is `=`, taking
\* both bytes, and otherwise ASSIGN `=`, taking one; on `!` NOT_EQ `!=` or
\* BANG in the same way; when `=` or `!` is the last byte the lookahead finds
\* no `=` and the cursor ends exactly at the end of the input.
C12_TwoByteOperators ==
    [][ LET s == skipSpaces(l)
            i == s.position
            nextIsEq == i + 1 < Len(l.input) /\ l.input[i + 2] = "="
            expected ==
                CASE s.ch = "=" /\ nextIsEq  -> Token("EQ", <<"=", "=">>)
                  [] s.ch = "=" /\ ~nextIsEq -> Token("ASSIGN", <<"=">>)
                  [] s.ch = "!" /\ nextIsEq  -> Token("NOT_EQ", <<"!", "=">>)
                  [] OTHER                   -> Token("BANG", <<"!">>)
        IN  (pc = "lex" /\ s.ch \in {"=", "!"})
              => /\ pc' = "lex"
                 /\ toks' = Append(toks, expected)
                 /\ l'.position = IF nextIsEq THEN i + 2 ELSE i + 1
                 /\ (i + 1 = Len(l.input)) => l'.position = Len(l.input)
      ]_vars

\* C12's case: `==` was read as EQ and a `!` that is the last byte as BANG
C12_Witness ==
    /\ Len(toks) >= 2
    /\ toks[1] = Token("EQ", <<"=", "=">>)
    /\ toks[2] = Token("BANG", <<"!">>)
    /\ l.input[Len(l.input)] = "!"

\* C15: a NextToken call that returns a token other than EOF moves the
\* lexer's position forward by at least one byte, and no call moves it back.
C15_PositionAdvances ==
    [][ /\ l'.position >= l.position
        /\ (pc' = "lex" /\ toks'[Len(toks')].Type # "EOF")
              => l'.position > l.position
      ]_vars

\* C15's case: an identifier, an integer and a delimiter were returned one
\* after the other
C15_Witness ==
    /\ Len(toks) >= 3
    /\ toks[1].Type = "IDENT"
    /\ toks[2].Type = "INT"
    /\ toks[3].Type = "SEMICOLON"
    /\ l.position >= 3

\* the bytes of the input that are not whitespace
NonSpace(input) == SelectSeq(input, LAMBDA c : ~isSpace(c))

\* the literals of the tokens before the first EOF, joined
RECURSIVE LiteralsBeforeEOF(_)
LiteralsBeforeEOF(ts) ==
    IF ts = <<>> \/ Head(ts).Type = "EOF" THEN <<>>
    ELSE Head(ts).Literal \o LiteralsBeforeEOF(Tail(ts))

HasEOF(ts) == \E i \in 1..Len(ts) : ts[i].Type = "EOF"

-----------------------------------------------------------------------------
(* Claims about the parser, checked under Spec *)

\* the categories of the tokens the lexer has returned
TokTypes == [i \in 1..Len(toks) |-> toks[i].Type]

\* the token stream begins with these categories
StreamStarts(types) ==
    Len(toks) >= Len(types) /\ SubSeq(TokTypes, 1, Len(types)) = types

IsLet(s) == s.type = "*ast.LetStatement"

\* C1: ParseProgram terminates on every input, its statement parsers making a
\* bounded number of NextToken calls: the parser never asks the lexer for
\* more than the input's tokens, its EOF and one token of lookahead.
C1_BoundedNextTokenCalls == Len(toks) <= Len(l.input) + 2

\* C2: `let <identifier> = <integer>;` parses to exactly one LetStatement
\* with that Name, an integer literal of that value as Value, and no errors.
C2_WellFormedLet ==
    (pc = "done" /\ StreamStarts(<<"LET", "IDENT", "ASSIGN", "INT", "SEMICOLON", "EOF">>))
      => /\ Len(program) = 1
         /\ IsLet(program[1])
         /\ program[1].ptr # Nil
         /\ program[1].ptr[1].Name = <<Identifier(toks[2])>>
         /\ program[1].ptr[1].Value # Nil
         /\ program[1].ptr[1].Value[1].Token = toks[4]
         /\ errors = <<>>

\* C4: identifiers joined by binary operators parse to one expression that
\* renders fully parenthesised by precedence and left associativity.
C4_PrecedenceRendering ==
    pc = "done" =>
      /\ l.input = <<"a"," ","+"," ","b"," ","+"," ","c">>
           => /\ Len(program) = 1
              /\ ProgramString(program) =
                   [str |-> <<"(","(","a"," ","+"," ","b",")"," ","+"," ","c",")">>,
                    panic |-> FALSE]
      /\ l.input = <<"a"," ","+"," ","b"," ","*"," ","c">>
           => /\ Len(program) = 1
              /\ ProgramString(program) =
                   [str |-> <<"(","a"," ","+"," ","(","b"," ","*"," ","c",")",")">>,
                    panic |-> FALSE]
      /\ l.input = <<"-","a"," ","*"," ","b">>
           => /\ Len(program) = 1
              /\ ProgramString(program) =
                   [str |-> <<"(","(","-","a",")"," ","*"," ","b",")">>,
                    panic |-> FALSE]

\* C6: parseExpression called on a current token whose category has no
\* prefix handler appends exactly one error "no prefix parse function for
\* <category>".  (ParseExpressionStatement is its only caller.)
C6_NoPrefixParseFnError ==
    [][ (/\ pc = "ParseProgram"
         /\ curToken.Type \notin {"EOF", "LET", "RETURN"}
         /\ curToken.Type \notin prefixParseFns)
          => errors' = Append(errors,
                 [msg |-> "no prefix parse function", for |-> curToken.Type])
      ]_vars

\* C7: a let statement whose identifier is not followed by `=` appends the
\* error naming ASSIGN and the peek token's category, and puts no
\* LetStatement into the program's statement list.
C7_MissingAssign ==
    [][ (/\ pc = "ParseProgram"
         /\ curToken.Type = "LET"
         /\ peekToken.Type = "IDENT"
         /\ ~NextToken(l).panic
         /\ NextToken(l).tok.Type # "ASSIGN")
          => /\ errors' = Append(errors,
                    [msg |-> "expected next token", expected |-> "ASSIGN",
                     got |-> NextToken(l).tok.Type])
             /\ \A i \in 1..Len(program') : i > Len(program) => ~IsLet(program'[i])
      ]_vars

\* C8: `return;` yields a ReturnStatement without a value and no error, and
\* what follows the `;` is parsed as statements of its own: `return; foo;`
\* yields two statements.
C8_ReturnWithoutValue ==
    (pc = "done" /\ StreamStarts(<<"RETURN", "SEMICOLON", "IDENT", "SEMICOLON", "EOF">>))
      => /\ Len(program) = 2
         /\ program[1].type = "*ast.ReturnStatement"
         /\ program[1].ptr # Nil
         /\ program[1].ptr[1].ReturnValue = Nil
         /\ program[2].type = "*ast.ExpressionStatement"
         /\ errors = <<>>

\* C9: when a let statement fails on an expected-token mismatch, it adds no
\* node to the program and parsing resumes at a statement boundary: the
\* next current token is EOF or the token that follows a `;`.
C9_ResumeAtStatementBoundary ==
    [][ (/\ pc = "ParseProgram"
         /\ curToken.Type = "LET"
         /\ pc' = "ParseProgram")
          => /\ program' = program
             /\ \/ curToken'.Type = "EOF"
                \/ toks'[Len(toks') - 2].Type = "SEMICOLON"
      ]_vars

\* C10: in the program returned, every LetStatement has a Name, and one
\* without a Value comes with a non-empty error list.
C10_LetNameAndValue ==
    pc = "done" =>
      \A i \in 1..Len(program) :
        (IsLet(program[i]) /\ program[i].ptr # Nil)
          => /\ program[i].ptr[1].Name # Nil
             /\ program[i].ptr[1].Value = Nil => errors # <<>>

\* an ExpressionStatement wrapping the identifier of token tok
IdentStatement(tok) ==
    Iface("*ast.ExpressionStatement", <<ExpressionStatement(tok, <<Identifier(tok)>>)>>)

C14_NoPartialNodes ==
    \A i \in 1..Len(program) :
      /\ program[i].ptr # Nil
      /\ program[i].type = "*ast.ExpressionStatement"
           => program[i].ptr[1].Expression # Nil

\* the categories expectPeek is called with
ExpectedTypes == {"IDENT", "ASSIGN", "SEMICOLON"}

C17_TwoTokenBuffer ==
    pc \in {"ParseProgram", "LetLoop", "ReturnLoop", "done"} =>
      /\ Len(toks) >= 2
      /\ curToken = toks[Len(toks) - 1]
      /\ peekToken = toks[Len(toks)]
      /\ curToken.Type = "EOF" => peekToken.Type = "EOF"

-----------------------------------------------------------------------------
(* Claims about rendering and parsing again, checked under RoundTripSpec *)

\* the categories of the tokens of a source text, up to its first EOF
RECURSIVE TypesFrom(_)
TypesFrom(lx) ==
    LET r == NextToken(lx)
    IN  IF r.panic \/ r.tok.Type = "EOF" THEN <<>>
        ELSE <<r.tok.Type>> \o TypesFrom(r.l)

\* one let, return or expression statement, by its tokens
ValidShapes ==
    { <<"LET", "IDENT", "ASSIGN", "IDENT", "SEMICOLON">>,
      <<"LET", "IDENT", "ASSIGN", "INT", "SEMICOLON">>,
      <<"RETURN", "IDENT", "SEMICOLON">>,
      <<"RETURN", "INT", "SEMICOLON">>,
      <<"RETURN", "SEMICOLON">>,
      <<"IDENT", "SEMICOLON">>,
      <<"INT", "SEMICOLON">>,
      <<"IDENT", "PLUS", "IDENT", "SEMICOLON">>,
      <<"IDENT", "PLUS", "INT", "SEMICOLON">> }

ValidStatement(src) == TypesFrom(NewLexer(src)) \in ValidShapes

\* C11: if r is the rendering of the tree parsed from a valid statement,
\* parsing r terminates (it never asks for more tokens than r has, as in C1)
\* and the tree it returns renders as r again.
C11_RenderingFixedPoint ==
    (firstPass # Nil /\ ValidStatement(firstPass[1].src))
      => /\ pc # "panic"
         /\ Len(toks) <= Len(l.input) + 2
         /\ pc = "done"
              => ProgramString(program) = [str |-> firstPass[1].str, panic |-> FALSE]

====
